---- MODULE Spec2Model ----
(***************************************************************************)
(* Subscription state reconciliation of the ghostsnap backend: the Stripe  *)
(* webhook controller (two variants are kept in the repository: the one    *)
(* with the module-level `obj`, called controller 13 here, and the one     *)
(* with setup_intent handling, called controller 14), the                  *)
(* trial service, the plan service and checkout creation.                  *)
(*                                                                         *)
(* Mongo collections are sequences in insertion order; a document's _id is *)
(* its index.  Time is a bounded integer clock.  Period bounds of a        *)
(* subscription (currentPeriodStart/End), fields of `obj` other than       *)
(* InvoiceId, and the map controller 14 writes and never reads are not     *)
(* part of the state.                                                      *)
(***************************************************************************)
EXTENDS Integers, Sequences, FiniteSets, TLC

NULL == "null"   \* null / undefined of a string-valued field
NoDate == 0      \* null of a date-valued field; timestamps are positive

\* ---- bounds of the model ----
MaxTime == 3
MaxEvents == 1       \* operations of a run of Spec
MaxEventsPay == 2    \* notifications of a run of SpecPay
MaxEventsSub == 3    \* operations of a run of SpecSub
MaxEventsCheckout == 4   \* operations of a run of SpecCheckout
MaxEventsTrial == 2      \* operations of a run of SpecTrial
MaxEventsObj == 2        \* notifications of a run of SpecObj
MaxEventsCancel == 3     \* requests of a run of SpecCancel
MaxTasks == 2
MaxSessions == 2

\* ---- program constants ----
InitialAmount == 200
RecurringAmount == 1000

\* ---- the finite world ----
Users == {"u1"}
Controllers == {13, 14}
SubName(k) == IF k = 1 THEN "sub1" ELSE IF k = 2 THEN "sub2" ELSE "sub3"
StripeSubs == {SubName(k) : k \in 1..MaxSessions}
Invoices == {"in1", "in2"}
PlanTypes == {"initial", "recurring"}
PlanSets == {{"initial", "recurring"}, {"initial"}}
SubStatuses == {"incomplete", "trialing", "active", "past_due", "canceled"}
\* in1 is the invoice that opens the subscription, in2 a later one
BillingReasons(inv) ==
  IF inv = "in1" THEN {"subscription_create"}
  ELSE {"subscription_cycle", "subscription_update"}

\* provider-side facts: every invoice belongs to one remote subscription and
\* is paid by one payment intent
PaymentIntentOf(inv) == IF inv = "in1" THEN "pi1" ELSE "pi2"
PaymentIntents == {PaymentIntentOf(inv) : inv \in Invoices}
InvoiceOf(pi) == CHOOSE inv \in Invoices : PaymentIntentOf(inv) = pi
InvoiceSubscription(inv) == "sub1"
InvoiceAmount(inv) == IF inv = "in1" THEN InitialAmount ELSE RecurringAmount
CustomerOf(u) == IF u = "u1" THEN "cus_u1" ELSE "cus_u2"

\* reference data written by the setup script
PlanPrice(t) == IF t = "initial" THEN "price_initial" ELSE "price_recurring"
PlanAmount(t) == IF t = "initial" THEN InitialAmount ELSE RecurringAmount
PlanInterval(t) == "week"
\* a price of the provider's catalogue that no SubscriptionPlan row carries
UnknownPrice == "price_unknown"

\* what extractCardDetailsFromPaymentIntent can return: nothing, or the card
\* of the payment method with the method's id
NoExtract == [cardDetails |-> NULL, paymentMethodId |-> NULL]
Extracts ==
  { NoExtract,
    [cardDetails |-> "card", paymentMethodId |-> "pm"] }

VARIABLES
  ctl,                \* which webhook controller is deployed
  plans,              \* plan types with an active SubscriptionPlan row
  hasEverSubscribed,  \* User.hasEverSubscribed
  subscriptions,      \* Subscription collection
  payments,           \* Payment collection
  sessions,           \* provider side: metadata of the checkout sessions created,
                      \* by the remote subscription each one starts
  obj,                \* controller 13: obj.InvoiceId
  tasks,              \* invoice handlers suspended before Payment.create
  now,                \* clock
  last,               \* the last completed operation and what it returned
  delivered,          \* how often each notification was handled
  swapped,            \* provider side: remote subscriptions whose price the
                      \* system swapped to the recurring price
  budget              \* operations the run may still perform

dbVars == <<hasEverSubscribed, subscriptions, payments, obj>>
vars == <<ctl, plans, hasEverSubscribed, subscriptions, payments, sessions, obj,
          tasks, now, last, delivered, swapped, budget>>

\* ---- collection helpers ----
\* Model.findOne(filter): the first matching document, 0 when none
FindOne(hits) ==
  IF hits = {} THEN 0 ELSE CHOOSE i \in hits : \A j \in hits : i <= j

\* Model.findOne(filter).sort({createdAt: -1})
FindLatest(hits) ==
  IF hits = {} THEN 0 ELSE CHOOSE i \in hits : \A j \in hits : i >= j

IsActive(s) == s.status \in {"active", "trialing"}

toDateFromUnix(value) == IF value <= 0 THEN NoDate ELSE value

\* what a handler leaves behind: the stored values, whether it threw, and the
\* continuation it is suspended in (<<>> when it ran to its end)
Out(subs, pays, flags, o, threw, task) ==
  [subscriptions |-> subs, payments |-> pays, hasEverSubscribed |-> flags,
   obj |-> o, threw |-> threw, task |-> task, swapped |-> swapped,
   upgrade |-> NULL]

Same ==
  Out(subscriptions, payments, hasEverSubscribed, obj, FALSE, <<>>)

Commit(r) ==
  /\ subscriptions' = r.subscriptions
  /\ payments' = r.payments
  /\ hasEverSubscribed' = r.hasEverSubscribed
  /\ obj' = r.obj
  /\ swapped' = r.swapped

\* the record kept of a completed operation: HTTP status (0 for a service
\* call), the subject, what was returned, and what the caller passed or saw
Done(op, status, id, result, reason, pre) ==
  [op |-> op, status |-> status, id |-> id, result |-> result,
   reason |-> reason, pre |-> pre]

NoPre == [none |-> TRUE]
NoOp == Done("none", 0, NULL, NULL, NULL, NoPre)

\* the state after construction: empty collections, b operations to come
Fresh(b) ==
  /\ ctl \in Controllers
  /\ plans \in PlanSets
  /\ hasEverSubscribed = [u \in Users |-> FALSE]
  /\ subscriptions = <<>>
  /\ payments = <<>>
  /\ sessions = [s \in {} |-> NULL]
  /\ obj = NULL
  /\ tasks = <<>>
  /\ now = 1
  /\ last = NoOp
  /\ delivered = [inv |-> [i \in Invoices |-> 0],
                  pi |-> [p \in PaymentIntents |-> 0],
                  card |-> [p \in PaymentIntents |-> FALSE]]
  /\ swapped = {}
  /\ budget = b

\* the database after a checkout by u1 and its subscription_created: a first
\* subscription on the initial plan, with or without a trial, or a returning
\* user's subscription on the recurring plan
StoredSubscription(first, trial) ==
  [user |-> "u1",
   stripeSubscriptionId |-> "sub1",
   stripeCustomerId |-> CustomerOf("u1"),
   stripePriceId |-> PlanPrice(IF first THEN "initial" ELSE "recurring"),
   status |-> IF trial THEN "trialing" ELSE "active",
   trialStart |-> IF trial THEN 1 ELSE NoDate,
   trialEnd |-> IF trial THEN 2 ELSE NoDate,
   canceledAt |-> NoDate,
   cancelAtPeriodEnd |-> FALSE,
   isFirstSubscription |-> first,
   subscriptionType |-> IF first THEN "initial" ELSE "recurring",
   amount |-> PlanAmount(IF first THEN "initial" ELSE "recurring"),
   interval |-> PlanInterval(IF first THEN "initial" ELSE "recurring")]

Stored(b) ==
  /\ ctl \in Controllers
  /\ plans \in PlanSets
  /\ \E first \in BOOLEAN, trial \in BOOLEAN :
       /\ ~first => (~trial /\ "recurring" \in plans)
       /\ ~trial => now = 1
       \* the recurring plan is read only by an upgrade
       /\ "recurring" \notin plans => (trial /\ now = MaxTime)
       /\ hasEverSubscribed = [u \in Users |-> ~first]
       /\ subscriptions = << StoredSubscription(first, trial) >>
       /\ sessions = ("sub1" :> [userId |-> "u1",
                                 planType |-> IF first THEN "initial" ELSE "recurring",
                                 isFirstSubscription |->
                                    IF first THEN "true" ELSE "false",
                                 isReturningUser |-> NULL])
  /\ payments = <<>>
  /\ obj = NULL
  /\ tasks = <<>>
  /\ now \in {1, MaxTime}
  /\ last = NoOp
  /\ delivered = [inv |-> [i \in Invoices |-> 0],
                  pi |-> [p \in PaymentIntents |-> 0],
                  card |-> [p \in PaymentIntents |-> FALSE]]
  /\ swapped = {}
  /\ budget = b

Init == Fresh(MaxEvents) \/ Stored(MaxEvents)
InitPay == Stored(MaxEventsPay)
InitCheckout == Fresh(MaxEventsCheckout)
InitSub == Fresh(MaxEventsSub) \/ Stored(MaxEventsSub)
InitTrial == Stored(MaxEventsTrial)
InitObj == Stored(MaxEventsObj) /\ ctl = 13
InitCancel == Stored(MaxEventsCancel)

\* ---------------------------------------------------------------------------
\* plan service
\* ---------------------------------------------------------------------------
\* a policy that asks for both the history and the flag
getRecommendedPlan_bothRequired(u, lookupOk) ==
  IF ~lookupOk
  THEN [planType |-> "initial", reason |-> "error_fallback"]
  ELSE LET activeSubscription ==
             FindOne({n \in DOMAIN subscriptions :
                 LET s == subscriptions[n]
                 IN s.user = u /\ IsActive(s)})
           hasAnySubscription == FindOne({n \in DOMAIN subscriptions :
                                     LET s == subscriptions[n]
                                     IN s.user = u})
       IN IF activeSubscription # 0
          THEN [planType |-> "existing", reason |-> "user_has_active_subscription"]
          ELSE IF hasAnySubscription # 0 /\ hasEverSubscribed[u]
               THEN [planType |-> "recurring", reason |-> "returning_user"]
               ELSE [planType |-> "initial", reason |-> "new_user"]

\* a fallback that still honours the flag when the lookup fails
getRecommendedPlan_flagOnFailure(u, lookupOk) ==
  IF ~lookupOk
  THEN IF hasEverSubscribed[u]
       THEN [planType |-> "recurring", reason |-> "returning_user"]
       ELSE [planType |-> "initial", reason |-> "error_fallback"]
  ELSE LET activeSubscription ==
             FindOne({n \in DOMAIN subscriptions :
                 LET s == subscriptions[n]
                 IN s.user = u /\ IsActive(s)})
           hasAnySubscription == FindOne({n \in DOMAIN subscriptions :
                                     LET s == subscriptions[n]
                                     IN s.user = u})
       IN IF activeSubscription # 0
          THEN [planType |-> "existing", reason |-> "user_has_active_subscription"]
          ELSE IF hasAnySubscription # 0 \/ hasEverSubscribed[u]
               THEN [planType |-> "recurring", reason |-> "returning_user"]
               ELSE [planType |-> "initial", reason |-> "new_user"]

getRecommendedPlan(u, lookupOk) ==
  IF ~lookupOk
  THEN [planType |-> "initial", reason |-> "error_fallback"]
  ELSE LET activeSubscription ==
             FindOne({n \in DOMAIN subscriptions :
                 LET s == subscriptions[n]
                 IN s.user = u /\ IsActive(s)})
           hasAnySubscription == FindOne({n \in DOMAIN subscriptions :
                                     LET s == subscriptions[n]
                                     IN s.user = u})
       IN IF activeSubscription # 0
          THEN [planType |-> "existing", reason |-> "user_has_active_subscription"]
          ELSE IF hasAnySubscription # 0 \/ hasEverSubscribed[u]
               THEN [planType |-> "recurring", reason |-> "returning_user"]
               ELSE [planType |-> "initial", reason |-> "new_user"]

\* the plan row handed out: the plan type when that plan exists, NULL otherwise
getPlanForUser(u, lookupOk) ==
  LET recommendation == getRecommendedPlan(u, lookupOk)
      row(t) == IF t \in plans THEN t ELSE NULL
  IN IF recommendation.planType = "recurring"
     THEN [plan |-> row("recurring"), isReturningUser |-> TRUE,
           reason |-> recommendation.reason]
     ELSE IF recommendation.planType = "initial"
          THEN [plan |-> row("initial"), isReturningUser |-> FALSE,
                reason |-> recommendation.reason]
          ELSE [plan |-> NULL, isReturningUser |-> FALSE,
                reason |-> recommendation.reason]

markUserAsEverSubscribed(u) ==
  IF ~hasEverSubscribed[u]
  THEN [hasEverSubscribed EXCEPT ![u] = TRUE]
  ELSE hasEverSubscribed

\* ---------------------------------------------------------------------------
\* trial service
\* ---------------------------------------------------------------------------
upgradeToRecurringSubscription_trialService(subs, i) ==
  IF "recurring" \notin plans
  THEN [success |-> "failed", subscriptions |-> subs]
  ELSE [success |-> "success",
        subscriptions |->
          [subs EXCEPT ![i] =
            [@ EXCEPT !.subscriptionType = "recurring",
                      !.stripePriceId = PlanPrice("recurring"),
                      !.amount = PlanAmount("recurring"),
                      !.interval = PlanInterval("recurring"),
                      !.isFirstSubscription = FALSE,
                      !.trialStart = NoDate,
                      !.trialEnd = NoDate]]]

Status(isInTrial, shouldCharge, action, upgradeResult, subs) ==
  [isInTrial |-> isInTrial, shouldCharge |-> shouldCharge, action |-> action,
   upgradeResult |-> upgradeResult, subscriptions |-> subs]

\* the evaluation run against the collection subs
checkTrialStatusOn(subs, u) ==
  LET initialSubscription ==
        FindOne({n \in DOMAIN subs :
            LET s == subs[n]
            IN s.user = u /\ s.subscriptionType = "initial" /\ IsActive(s)})
  IN IF initialSubscription = 0
     THEN Status(FALSE, FALSE, "none", NULL, subs)
     ELSE LET trialEnd == subs[initialSubscription].trialEnd
          IN IF trialEnd = NoDate
             THEN Status(FALSE, FALSE, "none", NULL, subs)
             ELSE IF now < trialEnd
                  THEN Status(TRUE, FALSE, "trial_active", NULL, subs)
                  ELSE LET recurringSubscription ==
                             FindOne({n \in DOMAIN subs :
                                 LET s == subs[n]
                                 IN s.user = u /\ s.subscriptionType = "recurring" /\ IsActive(s)})
                       IN IF recurringSubscription # 0
                          THEN Status(FALSE, FALSE, "already_recurring", NULL, subs)
                          ELSE LET upgradeResult ==
                                     upgradeToRecurringSubscription_trialService(
                                       subs, initialSubscription)
                               IN Status(FALSE, TRUE, "upgraded_to_recurring",
                                         upgradeResult.success,
                                         upgradeResult.subscriptions)

checkTrialStatus(u) == checkTrialStatusOn(subscriptions, u)

shouldChargeUserOn(subs, u) ==
  LET trialStatus == checkTrialStatusOn(subs, u)
  IN IF trialStatus.shouldCharge
     THEN [shouldCharge |-> TRUE, reason |-> "trial_ended",
           upgraded |-> trialStatus.upgradeResult,
           subscriptions |-> trialStatus.subscriptions]
     ELSE IF trialStatus.isInTrial
          THEN [shouldCharge |-> FALSE, reason |-> "in_trial", upgraded |-> NULL,
                subscriptions |-> trialStatus.subscriptions]
          ELSE [shouldCharge |-> FALSE, reason |-> trialStatus.action,
                upgraded |-> NULL, subscriptions |-> trialStatus.subscriptions]

shouldChargeUser(u) == shouldChargeUserOn(subscriptions, u)

\* ---------------------------------------------------------------------------
\* webhook controller: subscription lifecycle
\* ---------------------------------------------------------------------------
SubscriptionById(s) ==
  FindOne({n \in DOMAIN subscriptions :
      LET r == subscriptions[n]
      IN r.stripeSubscriptionId = s})

\* SubscriptionPlan.findOne({ stripePriceId })
PlanByPrice(priceId) ==
  IF \E t \in plans : PlanPrice(t) = priceId
  THEN CHOOSE t \in plans : PlanPrice(t) = priceId
  ELSE NULL

\* a handler that already stores the Subscription when the checkout completes
handleCheckoutSessionCompleted_createsRow(s) ==
  LET userId == sessions[s].userId
      isFirstSubscription == sessions[s].isFirstSubscription = "true"
      planType == sessions[s].planType
      row == [user |-> userId,
              stripeSubscriptionId |-> s,
              stripeCustomerId |-> CustomerOf(userId),
              stripePriceId |-> PlanPrice(planType),
              status |-> "incomplete",
              trialStart |-> NoDate,
              trialEnd |-> NoDate,
              canceledAt |-> NoDate,
              cancelAtPeriodEnd |-> FALSE,
              isFirstSubscription |-> isFirstSubscription,
              subscriptionType |-> planType,
              amount |-> PlanAmount(planType),
              interval |-> PlanInterval(planType)]
  IN IF userId = NULL THEN Same
     ELSE IF userId \notin Users THEN Same
     ELSE [Same EXCEPT
             !.subscriptions = IF SubscriptionById(s) = 0
                               THEN Append(subscriptions, row) ELSE subscriptions,
             !.hasEverSubscribed[userId] = @ \/ isFirstSubscription]

\* a handler that stores the session's isFirstSubscription as the flag
handleCheckoutSessionCompleted_assignFlag(s) ==
  LET userId == sessions[s].userId
      isFirstSubscription == sessions[s].isFirstSubscription = "true"
  IN IF userId = NULL THEN Same
     ELSE IF userId \notin Users THEN Same
     ELSE [Same EXCEPT !.hasEverSubscribed[userId] = isFirstSubscription]

handleCheckoutSessionCompleted(s) ==
  LET userId == sessions[s].userId
      isFirstSubscription == sessions[s].isFirstSubscription = "true"
  IN IF userId = NULL THEN Same
     ELSE IF userId \notin Users THEN Same
     ELSE IF isFirstSubscription
          THEN [Same EXCEPT !.hasEverSubscribed[userId] = TRUE]
          ELSE Same

\* a handler that falls back to the plan named in the metadata when the price
\* is unknown
handleSubscriptionCreated_planFromMetadata(s, userFound, priceId, status, trial_start, trial_end) ==
  LET userId == sessions[s].userId
      planType == sessions[s].planType
      isFirstSubscription == sessions[s].isFirstSubscription = "true"
      isReturningUser == sessions[s].isReturningUser = "true"
      plan == IF PlanByPrice(priceId) # NULL THEN PlanByPrice(priceId)
              ELSE sessions[s].planType
      trialStart == toDateFromUnix(trial_start)
      trialEnd == toDateFromUnix(trial_end)
      finalTrialStart == IF ctl = 14 /\ isReturningUser THEN NoDate ELSE trialStart
      finalTrialEnd == IF ctl = 14 /\ isReturningUser THEN NoDate ELSE trialEnd
      row == [user |-> userId,
              stripeSubscriptionId |-> s,
              stripeCustomerId |-> CustomerOf(userId),
              stripePriceId |-> PlanPrice(plan),
              status |-> status,
              trialStart |-> finalTrialStart,
              trialEnd |-> finalTrialEnd,
              canceledAt |-> NoDate,
              cancelAtPeriodEnd |-> FALSE,
              isFirstSubscription |-> isFirstSubscription,
              subscriptionType |-> planType,
              amount |-> PlanAmount(plan),
              interval |-> PlanInterval(plan)]
  IN IF userId = NULL THEN Same
     ELSE IF ~userFound THEN Same
     ELSE IF plan = NULL THEN Same
     ELSE IF SubscriptionById(s) # 0
          THEN [Same EXCEPT !.threw = TRUE]   \* duplicate key, rethrown
          ELSE [Same EXCEPT
                  !.subscriptions = Append(subscriptions, row),
                  !.hasEverSubscribed =
                     IF ctl = 14 /\ isReturningUser /\ ~hasEverSubscribed[userId]
                     THEN [hasEverSubscribed EXCEPT ![userId] = TRUE]
                     ELSE hasEverSubscribed]

\* priceId, status, trial_start and trial_end are the provider's subscription
\* object; userFound: whether User.findById finds the user of the metadata
handleSubscriptionCreated(s, userFound, priceId, status, trial_start, trial_end) ==
  LET userId == sessions[s].userId
      planType == sessions[s].planType
      isFirstSubscription == sessions[s].isFirstSubscription = "true"
      isReturningUser == sessions[s].isReturningUser = "true"
      plan == PlanByPrice(priceId)
      trialStart == toDateFromUnix(trial_start)
      trialEnd == toDateFromUnix(trial_end)
      finalTrialStart == IF ctl = 14 /\ isReturningUser THEN NoDate ELSE trialStart
      finalTrialEnd == IF ctl = 14 /\ isReturningUser THEN NoDate ELSE trialEnd
      row == [user |-> userId,
              stripeSubscriptionId |-> s,
              stripeCustomerId |-> CustomerOf(userId),
              stripePriceId |-> PlanPrice(plan),
              status |-> status,
              trialStart |-> finalTrialStart,
              trialEnd |-> finalTrialEnd,
              canceledAt |-> NoDate,
              cancelAtPeriodEnd |-> FALSE,
              isFirstSubscription |-> isFirstSubscription,
              subscriptionType |-> planType,
              amount |-> PlanAmount(plan),
              interval |-> PlanInterval(plan)]
  IN IF userId = NULL THEN Same
     ELSE IF ~userFound THEN Same
     ELSE IF plan = NULL THEN Same
     ELSE IF SubscriptionById(s) # 0
          THEN [Same EXCEPT !.threw = TRUE]   \* duplicate key, rethrown
          ELSE [Same EXCEPT
                  !.subscriptions = Append(subscriptions, row),
                  !.hasEverSubscribed =
                     IF ctl = 14 /\ isReturningUser /\ ~hasEverSubscribed[userId]
                     THEN [hasEverSubscribed EXCEPT ![userId] = TRUE]
                     ELSE hasEverSubscribed]

\* a handler that takes the type from whatever price the event carries
handleSubscriptionUpdated_typeFromPrice(s, price, status, fullStatus, cancel_at_period_end, canceled_at) ==
  LET i == SubscriptionById(s)
      subscription == subscriptions[i]
      upgraded ==
        [subscription EXCEPT
           !.subscriptionType =
              IF price = PlanPrice("recurring") THEN "recurring" ELSE "initial",
           !.stripePriceId = price]
      canceledAtDate == toDateFromUnix(canceled_at)
      saved ==
        [upgraded EXCEPT
           !.status = IF fullStatus # NULL THEN fullStatus ELSE @,
           !.cancelAtPeriodEnd = (cancel_at_period_end = "true"),
           !.canceledAt = IF canceledAtDate # NoDate THEN canceledAtDate ELSE @]
  IN IF i = 0 THEN Same
     ELSE IF subscription.subscriptionType = "initial" /\ "recurring" \notin plans
          THEN [Same EXCEPT !.threw = TRUE]   \* recurringPlan is null
          ELSE [Same EXCEPT !.subscriptions[i] = saved]

\* price and status are the event's; fullStatus and canceled_at are those of
\* the object ensureStripeSubscription returns. cancel_at_period_end is the
\* event's literal, NULL when the payload has none: the assignment of
\* undefined unsets the path, which then reads as the schema's default, false
handleSubscriptionUpdated(s, price, status, fullStatus, cancel_at_period_end, canceled_at) ==
  LET i == SubscriptionById(s)
      subscription == subscriptions[i]
      upgraded ==
        IF subscription.subscriptionType = "initial"
           /\ price = PlanPrice("recurring")
           /\ status = "active"
        THEN [subscription EXCEPT !.subscriptionType = "recurring",
                                  !.stripePriceId = PlanPrice("recurring"),
                                  !.amount = PlanAmount("recurring"),
                                  !.isFirstSubscription = FALSE]
        ELSE subscription
      canceledAtDate == toDateFromUnix(canceled_at)
      saved ==
        [upgraded EXCEPT
           !.status = IF fullStatus # NULL THEN fullStatus ELSE @,
           !.cancelAtPeriodEnd = (cancel_at_period_end = "true"),
           !.canceledAt = IF canceledAtDate # NoDate THEN canceledAtDate ELSE @]
  IN IF i = 0 THEN Same
     ELSE IF subscription.subscriptionType = "initial" /\ "recurring" \notin plans
          THEN [Same EXCEPT !.threw = TRUE]   \* recurringPlan is null
          ELSE [Same EXCEPT !.subscriptions[i] = saved]

\* a handler that removes the row of the ended subscription
handleSubscriptionDeleted_removesRow(s) ==
  LET i == SubscriptionById(s)
  IN IF i = 0 THEN Same
     ELSE [Same EXCEPT
             !.subscriptions = [j \in 1..(Len(subscriptions) - 1) |->
                                  IF j < i THEN subscriptions[j]
                                  ELSE subscriptions[j + 1]]]

handleSubscriptionDeleted(s) ==
  LET i == SubscriptionById(s)
      u == subscriptions[i].user
  IN IF i = 0 THEN Same
     ELSE [Same EXCEPT
             !.subscriptions[i] = [@ EXCEPT !.status = "canceled", !.canceledAt = now],
             !.hasEverSubscribed =
                IF ctl = 14 /\ ~hasEverSubscribed[u]
                THEN [hasEverSubscribed EXCEPT ![u] = TRUE]
                ELSE hasEverSubscribed]

handleTrialWillEnd(s) == Same

\* an upgrade check that never looks at the clock
shouldUpgradeToRecurring_ignoresTrialEnd(subscription) ==
  /\ subscription.isFirstSubscription
  /\ subscription.subscriptionType = "initial"

shouldUpgradeToRecurring(subscription) ==
  /\ subscription.isFirstSubscription
  /\ subscription.subscriptionType = "initial"
  /\ subscription.trialEnd # NoDate
  /\ now >= subscription.trialEnd

\* an upgrade that saves the local row before it asks the provider
upgradeToRecurringSubscription_webhook_commitFirst(r, i, stripeOk) ==
  IF "recurring" \notin plans THEN [r EXCEPT !.upgrade = "no_plan"]
  ELSE [r EXCEPT
          !.swapped = IF stripeOk
                      THEN @ \cup {r.subscriptions[i].stripeSubscriptionId}
                      ELSE @,
          !.upgrade = IF stripeOk THEN "upgraded" ELSE "swap_failed",
          !.subscriptions[i] =
             [@ EXCEPT !.stripePriceId = PlanPrice("recurring"),
                       !.subscriptionType = "recurring",
                       !.amount = PlanAmount("recurring"),
                       !.isFirstSubscription = FALSE]]

\* the controller's upgrade of the document r it holds: a remote price swap,
\* then the local commit. stripeOk: whether stripe.subscriptions.retrieve and
\* stripe.subscriptions.update both answered. upgrade records what happened.
upgradeToRecurringSubscription_webhook(r, i, stripeOk) ==
  IF "recurring" \notin plans THEN [r EXCEPT !.upgrade = "no_plan"]
  ELSE IF ~stripeOk THEN [r EXCEPT !.upgrade = "swap_failed"]
  ELSE [r EXCEPT
          !.swapped = @ \cup {r.subscriptions[i].stripeSubscriptionId},
          !.upgrade = "upgraded",
          !.subscriptions[i] =
             [@ EXCEPT !.stripePriceId = PlanPrice("recurring"),
                       !.subscriptionType = "recurring",
                       !.amount = PlanAmount("recurring"),
                       !.isFirstSubscription = FALSE]]

\* ---------------------------------------------------------------------------
\* webhook controller: payment ledger
\* ---------------------------------------------------------------------------
PaymentStatusOfIntent == "succeeded"   \* paymentIntent.status of payment_intent.succeeded
HostedInvoiceUrl(inv) == IF inv = "in1" THEN "hosted_in1" ELSE "hosted_in2"
FallbackId(inv) == IF inv = "in1" THEN "invoice_in1" ELSE "invoice_in2"
FailedId(inv) == IF inv = "in1" THEN "failed_in1" ELSE "failed_in2"
\* an invoice that no payment intent paid is an invoice for nothing
InvoiceAmounts(inv, paymentIntentId) ==
  IF paymentIntentId = NULL
  THEN [amount_paid |-> 0, amount_due |-> 0]
  ELSE [amount_paid |-> InvoiceAmount(inv), amount_due |-> InvoiceAmount(inv)]

PaymentByIntent(pays, id) ==
  FindOne({n \in DOMAIN pays :
      LET r == pays[n]
      IN r.stripePaymentIntentId = id})

\* a row stored without its subscription reference
PaymentRow_noSubscription(u, sub, pi, inv, amount, status, method, card, ptype, receipt, failure) ==
  [user |-> u, subscription |-> 0, stripePaymentIntentId |-> pi,
   stripeInvoiceId |-> inv, amount |-> amount, status |-> status,
   paymentMethod |-> method, cardDetails |-> card, paymentType |-> ptype,
   receiptUrl |-> receipt, failureReason |-> failure]

PaymentRow(u, sub, pi, inv, amount, status, method, card, ptype, receipt, failure) ==
  [user |-> u, subscription |-> sub, stripePaymentIntentId |-> pi,
   stripeInvoiceId |-> inv, amount |-> amount, status |-> status,
   paymentMethod |-> method, cardDetails |-> card, paymentType |-> ptype,
   receiptUrl |-> receipt, failureReason |-> failure]

\* a handler suspended between its lookup and Payment.create
TaskOf(kind, row, sub, snap, ex, receipt, op, id, pre) ==
  << [kind |-> kind, row |-> row, sub |-> sub, snap |-> snap, ex |-> ex,
      receipt |-> receipt, op |-> op, id |-> id, pre |-> pre] >>

\* payment_intent is invoice.payment_intent; viaCharge is what dereferencing
\* invoice.charge gives (NULL: no charge, or the retrieval failed)
getInvoicePaymentIntentId(payment_intent, viaCharge) ==
  IF payment_intent # NULL THEN payment_intent ELSE viaCharge

\* a classification by the subscription's type alone
InvoicePaymentType_byTypeOnly(billing_reason, subscription) ==
  IF subscription.subscriptionType = "initial"
  THEN "initial_payment" ELSE "recurring_payment"

InvoicePaymentType(billing_reason, subscription) ==
  IF billing_reason = "subscription_create"
  THEN IF subscription.subscriptionType = "initial"
       THEN "initial_payment" ELSE "recurring_payment"
  ELSE IF billing_reason = "subscription_update"
       THEN "upgrade_payment" ELSE "recurring_payment"

\* an update of the found Payment that takes the invoice's values
backfillInvoiceId_overwrites(payment, inv) ==
  [payment EXCEPT !.stripeInvoiceId = inv,
                  !.amount = InvoiceAmount(inv),
                  !.receiptUrl = HostedInvoiceUrl(inv)]

\* what the invoice handler does to a Payment it found under the payment
\* intent's id
backfillInvoiceId(payment, inv) ==
  IF payment.stripeInvoiceId = NULL
  THEN [payment EXCEPT !.stripeInvoiceId = inv]
  ELSE payment

\* runs to the lookup of the Payment; the create is left to the continuation
handleInvoicePaymentSucceeded(inv, subRef, payment_intent, viaCharge, amt, billing_reason, ex, pre) ==
  LET o == IF ctl = 13 THEN inv ELSE obj
      base == [Same EXCEPT !.obj = o]
      i == SubscriptionById(subRef)
      subscription == subscriptions[i]
      paymentType == InvoicePaymentType(billing_reason, subscription)
      paymentIntentId == getInvoicePaymentIntentId(payment_intent, viaCharge)
      fallbackId == FallbackId(o)
      amount13 == IF amt.amount_paid # 0 THEN amt.amount_paid ELSE amt.amount_due
      row13(id) == PaymentRow(subscription.user, i, id, inv, amount13, "succeeded",
                              NULL, NULL, paymentType, NULL, NULL)
      row14 == PaymentRow(subscription.user, i, paymentIntentId, inv,
                          amt.amount_paid,
                          IF ex.cardDetails # NULL THEN "succeeded" ELSE "processing",
                          NULL, ex.cardDetails, paymentType, HostedInvoiceUrl(inv),
                          NULL)
      existingPayment == PaymentByIntent(payments, paymentIntentId)
  IN IF subRef = NULL THEN base
     ELSE IF i = 0 THEN base
     ELSE IF paymentIntentId = NULL
          THEN IF ctl = 14 THEN base
               ELSE IF PaymentByIntent(payments, fallbackId) # 0 THEN base
               ELSE [base EXCEPT !.task =
                       TaskOf("fallback", row13(fallbackId), i, subscription, ex, NULL,
                            "invoice.payment_succeeded", inv, pre)]
          ELSE IF existingPayment # 0
               THEN [base EXCEPT
                       !.payments[existingPayment] = backfillInvoiceId(@, inv)]
               ELSE [base EXCEPT
                       !.task =
                          TaskOf("invoice",
                               IF ctl = 13 THEN row13(paymentIntentId) ELSE row14,
                               i, subscription, ex, NULL,
                               "invoice.payment_succeeded", inv, pre)]

\* a backfill that stores whatever the extraction returned
updatePayment13_overwriteCard(payment, ex, receipt, amount) ==
  [payment EXCEPT
     !.cardDetails = ex.cardDetails,
     !.paymentMethod =
        IF ex.paymentMethodId # NULL /\ @ = NULL THEN ex.paymentMethodId ELSE @,
     !.status = IF @ # PaymentStatusOfIntent THEN PaymentStatusOfIntent ELSE @,
     !.receiptUrl = IF receipt # NULL /\ @ = NULL THEN receipt ELSE @,
     !.amount = IF amount # 0 /\ @ = 0 THEN amount ELSE @]

\* controller 13: the backfill applied to a Payment found under the intent's id
updatePayment13(payment, ex, receipt, amount) ==
  [payment EXCEPT
     !.cardDetails = IF ex.cardDetails # NULL /\ @ = NULL THEN ex.cardDetails ELSE @,
     !.paymentMethod =
        IF ex.paymentMethodId # NULL /\ @ = NULL THEN ex.paymentMethodId ELSE @,
     !.status = IF @ # PaymentStatusOfIntent THEN PaymentStatusOfIntent ELSE @,
     !.receiptUrl = IF receipt # NULL /\ @ = NULL THEN receipt ELSE @,
     !.amount = IF amount # 0 /\ @ = 0 THEN amount ELSE @]

\* controller 14: the same, with the invoice id; the caller has checked that
\* ex.cardDetails is an object
updatePayment14(payment, ex, receipt, amount, invoiceRef) ==
  [payment EXCEPT
     !.cardDetails = IF @ = NULL THEN ex.cardDetails ELSE @,
     !.paymentMethod =
        IF ex.paymentMethodId # NULL /\ @ = NULL THEN ex.paymentMethodId ELSE @,
     !.status = IF @ # "succeeded" THEN "succeeded" ELSE @,
     !.receiptUrl = IF receipt # NULL /\ @ = NULL THEN receipt ELSE @,
     !.amount = IF amount # 0 /\ @ = 0 THEN amount ELSE @,
     !.stripeInvoiceId = IF invoiceRef # NULL /\ @ = NULL THEN invoiceRef ELSE @]

IntentPaymentType(subscription) ==
  IF subscription.subscriptionType = "initial"
  THEN "initial_payment" ELSE "recurring_payment"

\* invoiceRef is paymentIntent.invoice, retrieveOk whether stripe.invoices.retrieve
\* answered, receipt is charges.data[0].receipt_url
handlePaymentIntentSucceeded13(pi, ex, invoiceRef, retrieveOk, receipt, pre) ==
  LET payment == PaymentByIntent(payments, pi)
      amount == InvoiceAmount(InvoiceOf(pi))
      i == IF invoiceRef # NULL /\ retrieveOk
           THEN SubscriptionById(InvoiceSubscription(invoiceRef))
           ELSE 0
      subscription == subscriptions[i]
      row == PaymentRow(subscription.user, i, pi, invoiceRef, amount,
                        PaymentStatusOfIntent, ex.paymentMethodId, ex.cardDetails,
                        IntentPaymentType(subscription), receipt, NULL)
  IN IF payment # 0
     THEN [Same EXCEPT
             !.payments[payment] = updatePayment13(@, ex, receipt, amount)]
     ELSE IF i = 0 THEN Same
     ELSE [Same EXCEPT !.task =
             TaskOf("intent13", row, i, subscription, ex, receipt,
                  "payment_intent.succeeded", pi, pre)]

\* customer is paymentIntent.customer
handlePaymentIntentSucceeded14(pi, ex, invoiceRef, customer, receipt, pre) ==
  LET payment == PaymentByIntent(payments, pi)
      amount == InvoiceAmount(InvoiceOf(pi))
      byInvoice == IF invoiceRef # NULL
                   THEN FindOne({n \in DOMAIN payments :
                            LET r == payments[n]
                            IN r.stripeInvoiceId = invoiceRef})
                   ELSE 0
      i == IF customer # NULL
           THEN FindOne({n \in DOMAIN subscriptions :
                    LET r == subscriptions[n]
                    IN r.stripeCustomerId = customer})
           ELSE 0
      subscription == subscriptions[i]
      processing ==
        FindOne({n \in DOMAIN payments :
            LET r == payments[n]
            IN r.subscription = i /\ r.status = "processing"})
      rekey(r) ==
        [r EXCEPT !.stripePaymentIntentId = pi,
                  !.status = "succeeded",
                  !.cardDetails = ex.cardDetails,
                  !.paymentMethod =
                     IF ex.paymentMethodId # NULL THEN ex.paymentMethodId ELSE @]
      row == PaymentRow(subscription.user, i, pi, invoiceRef, amount, "succeeded",
                        ex.paymentMethodId, ex.cardDetails,
                        IntentPaymentType(subscription), NULL, NULL)
  IN IF payment # 0
     THEN IF ex.cardDetails = NULL
          THEN Same   \* Object.keys(null) throws; caught by the handler
          ELSE [Same EXCEPT
                  !.payments[payment] =
                     updatePayment14(@, ex, receipt, amount, invoiceRef)]
     ELSE IF byInvoice # 0
          THEN [Same EXCEPT !.payments[byInvoice] = rekey(@)]
          ELSE IF i = 0 THEN Same
          ELSE IF processing # 0
               THEN [Same EXCEPT
                       !.payments[processing] =
                          [rekey(@) EXCEPT
                             !.stripeInvoiceId =
                                IF invoiceRef # NULL THEN invoiceRef ELSE @]]
               ELSE [Same EXCEPT !.task =
                       TaskOf("intent14", row, i, subscription, ex, receipt,
                            "payment_intent.succeeded", pi, pre)]

handlePaymentIntentSucceeded(pi, ex, invoiceRef, retrieveOk, customer, receipt, pre) ==
  IF ctl = 13
  THEN handlePaymentIntentSucceeded13(pi, ex, invoiceRef, retrieveOk, receipt, pre)
  ELSE handlePaymentIntentSucceeded14(pi, ex, invoiceRef, customer, receipt, pre)

handleInvoicePaymentFailed(inv, subRef, payment_intent, viaCharge, amount_due) ==
  LET i == SubscriptionById(subRef)
      subscription == subscriptions[i]
      paymentIntentId == getInvoicePaymentIntentId(payment_intent, viaCharge)
      finalPaymentIntentId ==
        IF paymentIntentId # NULL THEN paymentIntentId
        ELSE IF payment_intent # NULL THEN payment_intent
        ELSE FailedId(inv)
      existingPayment == PaymentByIntent(payments, finalPaymentIntentId)
      row == PaymentRow(subscription.user, i, finalPaymentIntentId, inv, amount_due,
                        "canceled", NULL, NULL, "recurring_payment", NULL,
                        "Payment failed")
  IN IF subRef = NULL THEN Same
     ELSE IF i = 0 THEN Same
     ELSE IF existingPayment # 0
          THEN IF payments[existingPayment].status # "canceled"
               THEN [Same EXCEPT
                       !.payments[existingPayment] =
                          [@ EXCEPT !.status = "canceled",
                                    !.failureReason = "Payment failed"]]
               ELSE Same
          ELSE [Same EXCEPT !.payments = Append(payments, row)]

\* controller 14 only; ex is the expanded payment method of the setup intent
handleSetupIntentSucceeded(customer, ex, retrieveOk) ==
  LET i == IF customer # NULL
           THEN FindOne({n \in DOMAIN subscriptions :
                    LET r == subscriptions[n]
                    IN r.stripeCustomerId = customer})
           ELSE 0
      recentProcessingPayment ==
        FindLatest({n \in DOMAIN payments :
            LET r == payments[n]
            IN r.subscription = i /\ r.status = "processing"})
  IN IF ~retrieveOk THEN Same
     ELSE IF i = 0 THEN Same
     ELSE IF recentProcessingPayment = 0 THEN Same
     ELSE [Same EXCEPT
             !.payments[recentProcessingPayment] =
                [@ EXCEPT
                   !.cardDetails = IF ex.cardDetails # NULL THEN ex.cardDetails ELSE @,
                   !.paymentMethod =
                      IF ex.paymentMethodId # NULL /\ @ = NULL
                      THEN ex.paymentMethodId ELSE @]]

\* ---------------------------------------------------------------------------
\* the dispatcher and the continuations
\* ---------------------------------------------------------------------------
\* a notification counts as handled for its transaction when the handler ran
\* with the subscription row present and the transaction's ids on the payload
Count(op, pre) ==
  IF op = "invoice.payment_succeeded" /\ pre.linked
  THEN [delivered EXCEPT !.inv[pre.inv] = @ + 1]
  ELSE IF op = "payment_intent.succeeded" /\ pre.linked
       THEN [delivered EXCEPT !.pi[pre.pi] = @ + 1,
                              !.card[pre.pi] = @ \/ pre.card]
       ELSE delivered

\* a dispatcher that runs the handler before it looks at the signature
handleStripeWebhook_handlerFirst(op, id, constructEventOk, r, pre) ==
  /\ budget > 0
  /\ budget' = budget - 1
  /\ IF ~constructEventOk
     THEN /\ Commit(r)
          /\ UNCHANGED <<tasks, delivered>>
          /\ last' = Done("unverified", 400, NULL, NULL, "Webhook Error", NoPre)
     ELSE /\ Commit(r)
          /\ IF r.task # <<>>
             THEN /\ Len(tasks) < MaxTasks
                  /\ tasks' = tasks \o r.task
                  /\ last' = Done(op, 0, NULL, "pending", NULL, NoPre)
                  /\ UNCHANGED delivered
             ELSE /\ tasks' = tasks
                  /\ last' = Done(op, IF r.threw THEN 500 ELSE 200, id, NULL, NULL,
                                  IF op \in {"customer.subscription.created",
                                              "customer.subscription.updated"}
                                  THEN pre ELSE NoPre)
                  /\ delivered' = IF r.threw THEN delivered ELSE Count(op, pre)
  /\ UNCHANGED <<ctl, plans, sessions, now>>

\* constructEventOk: whether stripe.webhooks.constructEvent accepted the
\* signature; r: what the handler selected by event.type leaves behind
handleStripeWebhook(op, id, constructEventOk, r, pre) ==
  /\ budget > 0
  /\ budget' = budget - 1
  /\ IF ~constructEventOk
     THEN /\ UNCHANGED <<hasEverSubscribed, subscriptions, payments, obj, tasks,
                         delivered, swapped>>
          /\ last' = Done("unverified", 400, NULL, NULL, "Webhook Error", NoPre)
     ELSE /\ Commit(r)
          /\ IF r.task # <<>>
             THEN /\ Len(tasks) < MaxTasks
                  /\ tasks' = tasks \o r.task
                  /\ last' = Done(op, 0, NULL, "pending", NULL, NoPre)
                  /\ UNCHANGED delivered
             ELSE /\ tasks' = tasks
                  /\ last' = Done(op, IF r.threw THEN 500 ELSE 200, id, NULL, NULL,
                                  IF op \in {"customer.subscription.created",
                                              "customer.subscription.updated"}
                                  THEN pre ELSE NoPre)
                  /\ delivered' = IF r.threw THEN delivered ELSE Count(op, pre)
  /\ UNCHANGED <<ctl, plans, sessions, now>>

RemoveAt(seq, k) == [j \in 1..(Len(seq) - 1) |-> IF j < k THEN seq[j] ELSE seq[j + 1]]

\* a collection without the unique index on stripePaymentIntentId
CreatePayment_noUniqueIndex(pays, row) == Append(pays, row)

\* Payment.create: the unique index on stripePaymentIntentId refuses a second
\* document with the same id (E11000) and the collection stays as it was
CreatePayment(pays, row) ==
  IF PaymentByIntent(pays, row.stripePaymentIntentId) = 0
  THEN Append(pays, row)
  ELSE pays

\* a continuation that lets the duplicate-key error of the invoice handler's
\* create reach the dispatcher
resumeAfterCreate_rethrowsDuplicate(task, stripeOk) ==
  LET duplicate == PaymentByIntent(payments, task.row.stripePaymentIntentId)
      created == CreatePayment(payments, task.row)
      stored == [Same EXCEPT !.payments = created]
  IN IF task.kind = "invoice"
     THEN IF duplicate # 0
          THEN [Same EXCEPT !.threw = TRUE]
          ELSE IF shouldUpgradeToRecurring(task.snap)
               THEN upgradeToRecurringSubscription_webhook(stored, task.sub, stripeOk)
               ELSE stored
     ELSE IF task.kind = "intent13" /\ duplicate # 0
          THEN [Same EXCEPT
                  !.payments[duplicate] =
                     updatePayment13(@, task.ex, task.receipt, task.row.amount)]
          ELSE [Same EXCEPT !.payments = created]

\* Payment.create of a suspended handler, and what the handler does after it
resumeAfterCreate(task, stripeOk) ==
  LET duplicate == PaymentByIntent(payments, task.row.stripePaymentIntentId)
      created == CreatePayment(payments, task.row)
      stored == [Same EXCEPT !.payments = created]
  IN IF task.kind = "invoice"
     THEN IF shouldUpgradeToRecurring(task.snap)
          THEN upgradeToRecurringSubscription_webhook(stored, task.sub, stripeOk)
          ELSE stored
     ELSE IF task.kind = "intent13" /\ duplicate # 0
          THEN [Same EXCEPT
                  !.payments[duplicate] =
                     updatePayment13(@, task.ex, task.receipt, task.row.amount)]
          ELSE [Same EXCEPT !.payments = created]

ResumeTask ==
  \E k \in DOMAIN tasks, stripeOk \in BOOLEAN :
    LET task == tasks[k]
        r == resumeAfterCreate(task, stripeOk)
    IN /\ task.kind # "lookup"
       /\ stripeOk \/ (task.kind = "invoice" /\ shouldUpgradeToRecurring(task.snap))
       /\ Commit(r)
       /\ tasks' = RemoveAt(tasks, k)
       /\ last' = Done(task.op, IF r.threw THEN 500 ELSE 200,
                       IF task.kind = "fallback" THEN task.id
                       ELSE IF r.upgrade = NULL THEN NULL
                       ELSE subscriptions[task.sub].stripeSubscriptionId,
                       r.upgrade,
                       IF PaymentByIntent(payments, task.row.stripePaymentIntentId) # 0
                       THEN "duplicate_key" ELSE NULL,
                       NoPre)
       /\ delivered' = Count(task.op, task.pre)
       /\ UNCHANGED <<ctl, plans, sessions, now, budget>>

\* ---------------------------------------------------------------------------
\* notifications
\* ---------------------------------------------------------------------------
CheckoutSessionCompleted ==
  \E s \in StripeSubs, ok \in BOOLEAN :
    /\ s \in DOMAIN sessions
    /\ handleStripeWebhook("checkout.session.completed", s, ok,
                           handleCheckoutSessionCompleted(s), NoPre)

SubscriptionCreated ==
  \E s \in StripeSubs, ok \in BOOLEAN, status \in {"incomplete", "trialing", "active"},
     trial_end \in {0, now + 1}, userFound \in BOOLEAN, priceKnown \in BOOLEAN :
    /\ s \in DOMAIN sessions
    /\ trial_end <= MaxTime
    /\ ok \/ (status = "active" /\ trial_end = 0)
    \* one payload stands for the notifications that cannot be resolved
    /\ (userFound /\ priceKnown)
       \/ (ok /\ status = "active" /\ trial_end = 0 /\ (userFound \/ priceKnown))
    /\ handleStripeWebhook("customer.subscription.created", s, ok,
                           handleSubscriptionCreated(
                             s, userFound,
                             IF priceKnown THEN PlanPrice(sessions[s].planType)
                             ELSE UnknownPrice,
                             status, IF trial_end = 0 THEN 0 ELSE now, trial_end),
                           [unknownUser |-> ~userFound, unknownPrice |-> ~priceKnown])

SubscriptionUpdated ==
  \E s \in StripeSubs, ok \in BOOLEAN, t \in PlanTypes, status \in SubStatuses,
     cancel_at_period_end \in {"true", "false", NULL}, canceled_at \in {0, now} :
    /\ s \in DOMAIN sessions
    \* a cancellation at the period's end carries the time it was asked for
    /\ cancel_at_period_end = "true" => canceled_at # 0
    /\ ok \/ (t = "recurring" /\ status = "active" /\ cancel_at_period_end = "false"
              /\ canceled_at = 0)
    \* one payload stands for those without cancel_at_period_end
    /\ cancel_at_period_end = NULL
         => (ok /\ t = "initial" /\ status = "active" /\ canceled_at = 0)
    \* the event carries the whole subscription object, status included
    /\ handleStripeWebhook("customer.subscription.updated", s, ok,
                           handleSubscriptionUpdated(
                             s, PlanPrice(t), status, status,
                             cancel_at_period_end, canceled_at),
                           [price |-> PlanPrice(t), cancel |-> cancel_at_period_end])

SubscriptionDeleted ==
  \E s \in StripeSubs, ok \in BOOLEAN :
    /\ s \in DOMAIN sessions
    /\ handleStripeWebhook("customer.subscription.deleted", s, ok,
                           handleSubscriptionDeleted(s), NoPre)

TrialWillEnd ==
  \E s \in StripeSubs, ok \in BOOLEAN :
    /\ s \in DOMAIN sessions
    /\ handleStripeWebhook("customer.subscription.trial_will_end", s, ok,
                           handleTrialWillEnd(s), NoPre)

InvoicePaymentSucceeded ==
  \E inv \in Invoices :
  \E ok \in BOOLEAN, subRef \in {NULL, InvoiceSubscription(inv)},
     payment_intent \in {NULL, PaymentIntentOf(inv)},
     viaCharge \in {NULL, PaymentIntentOf(inv)},
     billing_reason \in BillingReasons(inv),
     ex \in IF ctl = 14 THEN Extracts ELSE {NoExtract} :
    LET amt == InvoiceAmounts(inv, getInvoicePaymentIntentId(payment_intent, viaCharge))
        pre == [inv |-> inv,
                pi |-> getInvoicePaymentIntentId(payment_intent, viaCharge),
                reason |-> billing_reason,
                linked |-> /\ subRef # NULL
                           /\ SubscriptionById(subRef) # 0
                           /\ getInvoicePaymentIntentId(payment_intent, viaCharge) # NULL]
    IN /\ InvoiceSubscription(inv) \in DOMAIN sessions
       /\ payment_intent = NULL \/ viaCharge = NULL
       /\ ok \/ (subRef # NULL /\ payment_intent # NULL /\ ex = NoExtract
                 /\ billing_reason # "subscription_update")
       \* an invoice without a payment intent is remembered as the subject
       /\ handleStripeWebhook("invoice.payment_succeeded",
                              IF /\ subRef # NULL
                                 /\ SubscriptionById(subRef) # 0
                                 /\ pre.pi = NULL
                              THEN inv ELSE NULL,
                              ok,
                              handleInvoicePaymentSucceeded(
                                inv, subRef, payment_intent, viaCharge, amt,
                                billing_reason, ex, pre),
                              pre)

\* controller 13, an invoice that names a stored subscription and carries no
\* payment intent, followed await by await: the handler writes obj.InvoiceId
\* and is suspended in Subscription.findOne
InvoicePaymentSucceededBegin ==
  \E inv \in Invoices :
  \E ok \in BOOLEAN, billing_reason \in BillingReasons(inv) :
    LET subRef == InvoiceSubscription(inv)
        i == SubscriptionById(subRef)
        amt == InvoiceAmounts(inv, NULL)
        pre == [inv |-> inv, pi |-> NULL, reason |-> billing_reason, linked |-> FALSE]
    IN /\ ctl = 13
       /\ subRef \in DOMAIN sessions
       /\ i # 0
       /\ ok \/ billing_reason = "subscription_create"
       /\ handleStripeWebhook("invoice.payment_succeeded", inv, ok,
                              [Same EXCEPT
                                 !.obj = inv,
                                 !.task =
                                    TaskOf("lookup",
                                           PaymentRow(subscriptions[i].user, i, NULL, inv,
                                                      IF amt.amount_paid # 0
                                                      THEN amt.amount_paid
                                                      ELSE amt.amount_due,
                                                      "succeeded", NULL, NULL,
                                                      InvoicePaymentType(billing_reason,
                                                                         subscriptions[i]),
                                                      NULL, NULL),
                                           i, subscriptions[i], NoExtract, NULL,
                                           "invoice.payment_succeeded", inv, pre)],
                              pre)

\* the handler resumes: it builds the fallback id from obj.InvoiceId as it is
\* now, looks for a payment under that id, and is suspended in Payment.create
ResumeLookup ==
  \E k \in DOMAIN tasks :
    LET task == tasks[k]
        fallbackId == FallbackId(obj)
        existingPayment == PaymentByIntent(payments, fallbackId)
    IN /\ task.kind = "lookup"
       /\ IF existingPayment # 0
          THEN /\ tasks' = RemoveAt(tasks, k)
               /\ last' = Done(task.op, 200, task.id, NULL, NULL, NoPre)
          ELSE /\ tasks' = [tasks EXCEPT
                              ![k] = [@ EXCEPT !.kind = "fallback",
                                               !.row.stripePaymentIntentId = fallbackId]]
               /\ last' = Done(task.op, 0, NULL, "pending", NULL, NoPre)
       /\ UNCHANGED <<ctl, plans, hasEverSubscribed, subscriptions, payments, sessions,
                      obj, now, delivered, swapped, budget>>

PaymentIntentSucceeded ==
  \E pi \in PaymentIntents, ok \in BOOLEAN, ex \in Extracts,
     hasInvoice \in BOOLEAN, retrieveOk \in BOOLEAN, hasCustomer \in BOOLEAN,
     receipt \in {NULL, "receipt"} :
    LET s == InvoiceSubscription(InvoiceOf(pi))
        pre == [pi |-> pi,
                card |-> ex.cardDetails # NULL,
                linked |-> /\ hasInvoice /\ retrieveOk /\ hasCustomer
                           /\ SubscriptionById(s) # 0]
    IN /\ s \in DOMAIN sessions
       \* controller 13 never reads the customer, controller 14 never
       \* retrieves the invoice
       /\ IF ctl = 13 THEN hasCustomer ELSE retrieveOk
       \* the receipt comes with the charge that carries the card
       /\ receipt = NULL <=> ex.cardDetails = NULL
       /\ ok \/ (hasInvoice /\ retrieveOk /\ hasCustomer /\ ex = NoExtract
                 /\ receipt = NULL)
       /\ handleStripeWebhook("payment_intent.succeeded", NULL, ok,
                              handlePaymentIntentSucceeded(
                                pi, ex, IF hasInvoice THEN InvoiceOf(pi) ELSE NULL,
                                retrieveOk,
                                IF hasCustomer THEN CustomerOf(sessions[s].userId)
                                ELSE NULL,
                                receipt, pre),
                              pre)

InvoicePaymentFailed ==
  \E inv \in Invoices :
  \E ok \in BOOLEAN, subRef \in {NULL, InvoiceSubscription(inv)},
     payment_intent \in {NULL, PaymentIntentOf(inv)},
     viaCharge \in {NULL, PaymentIntentOf(inv)}, amount_due \in {InvoiceAmount(inv)} :
    /\ InvoiceSubscription(inv) \in DOMAIN sessions
    /\ payment_intent = NULL \/ viaCharge = NULL
    /\ ok \/ (subRef # NULL /\ payment_intent # NULL)
    /\ handleStripeWebhook("invoice.payment_failed", NULL, ok,
                           handleInvoicePaymentFailed(
                             inv, subRef, payment_intent, viaCharge, amount_due),
                           [inv |-> inv,
                            pi |-> getInvoicePaymentIntentId(payment_intent, viaCharge)])

\* controller 13 has no case for this event type and only acknowledges it
SetupIntentSucceeded ==
  \E u \in Users, ok \in BOOLEAN, hasCustomer \in BOOLEAN, ex \in Extracts,
     retrieveOk \in BOOLEAN :
    /\ ok \/ (hasCustomer /\ retrieveOk /\ ex = NoExtract)
    /\ ctl = 13 => (hasCustomer /\ retrieveOk /\ ex = NoExtract)
    /\ handleStripeWebhook("setup_intent.succeeded", NULL, ok,
                        IF ctl = 14
                        THEN handleSetupIntentSucceeded(
                               IF hasCustomer THEN CustomerOf(u) ELSE NULL, ex,
                               retrieveOk)
                        ELSE Same,
                        NoPre)

\* ---------------------------------------------------------------------------
\* requests
\* ---------------------------------------------------------------------------
\* stripeOk: whether stripe.checkout.sessions.create answered
CreateCheckoutSession ==
  \E u \in Users, stripeOk \in BOOLEAN :
    LET existingSubscription ==
          FindOne({n \in DOMAIN subscriptions :
              LET r == subscriptions[n]
              IN r.user = u /\ IsActive(r)})
        wanted == IF hasEverSubscribed[u] THEN "recurring" ELSE "initial"
        plan == IF wanted \in plans THEN wanted ELSE NULL
        k == Cardinality(DOMAIN sessions) + 1
        status == IF existingSubscription # 0 THEN 400
                  ELSE IF plan = NULL THEN 404
                  ELSE IF ~stripeOk THEN 500 ELSE 200
        metadata == [userId |-> u,
                     planType |-> plan,
                     isFirstSubscription |->
                        IF ~hasEverSubscribed[u] THEN "true" ELSE "false",
                     isReturningUser |-> NULL]
    IN /\ k <= MaxSessions
       /\ budget > 0
       /\ budget' = budget - 1
       /\ sessions' = IF status = 200 THEN sessions @@ (SubName(k) :> metadata)
                      ELSE sessions
       /\ last' = Done("createCheckoutSession", status, u, plan, NULL, NoPre)
       /\ UNCHANGED <<ctl, plans, hasEverSubscribed, subscriptions, payments, obj,
                      tasks, now, delivered, swapped>>

\* stripeOk: whether stripe.subscriptions.update answered
\* a cancellation that saves the row before it asks the provider
CancelSubscription_saveFirst ==
  \E u \in Users, stripeOk \in BOOLEAN :
    LET subscription ==
          FindOne({n \in DOMAIN subscriptions :
              LET r == subscriptions[n]
              IN r.user = u /\ IsActive(r)})
        status == IF subscription = 0 THEN 404
                  ELSE IF ~stripeOk THEN 500 ELSE 200
    IN /\ budget > 0
       /\ subscription = 0 => stripeOk
       /\ budget' = budget - 1
       /\ subscriptions' =
            IF subscription # 0
            THEN [subscriptions EXCEPT
                    ![subscription] = [@ EXCEPT !.cancelAtPeriodEnd = TRUE,
                                                !.canceledAt = now]]
            ELSE subscriptions
       /\ last' = Done("cancelSubscription", status, u, NULL, NULL, NoPre)
       /\ UNCHANGED <<ctl, plans, hasEverSubscribed, payments, sessions, obj, tasks,
                      now, delivered, swapped>>

CancelSubscription ==
  \E u \in Users, stripeOk \in BOOLEAN :
    LET subscription ==
          FindOne({n \in DOMAIN subscriptions :
              LET r == subscriptions[n]
              IN r.user = u /\ IsActive(r)})
        status == IF subscription = 0 THEN 404
                  ELSE IF ~stripeOk THEN 500 ELSE 200
    IN /\ budget > 0
       /\ subscription = 0 => stripeOk
       /\ budget' = budget - 1
       /\ subscriptions' =
            IF status = 200
            THEN [subscriptions EXCEPT
                    ![subscription] = [@ EXCEPT !.cancelAtPeriodEnd = TRUE,
                                                !.canceledAt = now]]
            ELSE subscriptions
       /\ last' = Done("cancelSubscription", status, u, NULL, NULL, NoPre)
       /\ UNCHANGED <<ctl, plans, hasEverSubscribed, payments, sessions, obj, tasks,
                      now, delivered, swapped>>

ReactivateSubscription ==
  \E u \in Users, stripeOk \in BOOLEAN :
    LET subscription ==
          FindOne({n \in DOMAIN subscriptions :
              LET r == subscriptions[n]
              IN r.user = u /\ IsActive(r) /\ r.cancelAtPeriodEnd})
        status == IF subscription = 0 THEN 404
                  ELSE IF ~stripeOk THEN 500 ELSE 200
    IN /\ budget > 0
       /\ subscription = 0 => stripeOk
       /\ budget' = budget - 1
       /\ subscriptions' =
            IF status = 200
            THEN [subscriptions EXCEPT
                    ![subscription] = [@ EXCEPT !.cancelAtPeriodEnd = FALSE,
                                                !.canceledAt = NoDate]]
            ELSE subscriptions
       /\ last' = Done("reactivateSubscription", status, u, NULL, NULL, NoPre)
       /\ UNCHANGED <<ctl, plans, hasEverSubscribed, payments, sessions, obj, tasks,
                      now, delivered, swapped>>

ShouldChargeUser ==
  \E u \in Users :
    LET r == shouldChargeUser(u)
    IN /\ budget > 0
       /\ budget' = budget - 1
       /\ subscriptions' = r.subscriptions
       /\ last' = Done("shouldChargeUser", 0, u,
                       IF r.shouldCharge THEN "charge" ELSE "no_charge", r.reason,
                       [upgraded |-> r.upgraded])
       /\ UNCHANGED <<ctl, plans, hasEverSubscribed, payments, sessions, obj, tasks,
                      now, delivered, swapped>>

\* POST /api/trial/upgrade: provideTrialInfo evaluates the trial, then
\* upgradeTrial evaluates it again and answers from the second evaluation
UpgradeTrial ==
  \E u \in Users :
    LET trialInfo == shouldChargeUserOn(subscriptions, u)
        chargeDecision == shouldChargeUserOn(trialInfo.subscriptions, u)
    IN /\ budget > 0
       /\ budget' = budget - 1
       /\ subscriptions' = chargeDecision.subscriptions
       /\ last' = Done("upgradeTrial",
                       IF chargeDecision.shouldCharge THEN 200 ELSE 400, u,
                       chargeDecision.upgraded, chargeDecision.reason,
                       [upgraded |-> trialInfo.upgraded])
       /\ UNCHANGED <<ctl, plans, hasEverSubscribed, payments, sessions, obj, tasks,
                      now, delivered, swapped>>

GetRecommendedPlan ==
  \E u \in Users, lookupOk \in BOOLEAN :
    LET r == getRecommendedPlan(u, lookupOk)
        p == getPlanForUser(u, lookupOk)
    IN /\ budget > 0
       /\ budget' = budget - 1
       /\ last' = Done("getRecommendedPlan", 0, u, r.planType, r.reason,
                       [lookupOk |-> lookupOk,
                        active |-> \E i \in DOMAIN subscriptions :
                                     /\ subscriptions[i].user = u
                                     /\ subscriptions[i].status \in {"active", "trialing"},
                        history |-> \E i \in DOMAIN subscriptions :
                                      subscriptions[i].user = u,
                        flag |-> hasEverSubscribed[u],
                        plan |-> p.plan,
                        isReturningUser |-> p.isReturningUser])
       /\ UNCHANGED <<ctl, plans, hasEverSubscribed, subscriptions, payments, sessions,
                      obj, tasks, now, delivered, swapped>>

MarkUserAsEverSubscribed ==
  \E u \in Users :
    /\ budget > 0
    /\ budget' = budget - 1
    /\ hasEverSubscribed' = markUserAsEverSubscribed(u)
    /\ last' = Done("markUserAsEverSubscribed", 0, u, NULL, NULL, NoPre)
    /\ UNCHANGED <<ctl, plans, subscriptions, payments, sessions, obj, tasks, now,
                   delivered, swapped>>

Tick ==
  /\ now < MaxTime
  /\ now' = now + 1
  /\ UNCHANGED <<ctl, plans, hasEverSubscribed, subscriptions, payments, sessions,
                 obj, tasks, last, delivered, swapped, budget>>

\* the ledger alone: notifications about payments of a subscription that
\* subscription_created has already stored
NextPay ==
  \/ InvoicePaymentSucceeded
  \/ PaymentIntentSucceeded
  \/ InvoicePaymentFailed
  \/ SetupIntentSucceeded
  \/ ResumeTask

\* subscriptions, users and plans alone
NextSub ==
  \/ Tick
  \/ CreateCheckoutSession
  \/ CheckoutSessionCompleted
  \/ SubscriptionCreated
  \/ SubscriptionUpdated
  \/ SubscriptionDeleted
  \/ TrialWillEnd
  \/ ShouldChargeUser
  \/ GetRecommendedPlan
  \/ MarkUserAsEverSubscribed

\* checkouts from an empty database, and the lifecycle of what they start
NextCheckout ==
  \/ CreateCheckoutSession
  \/ CheckoutSessionCompleted
  \/ SubscriptionCreated
  \/ SubscriptionUpdated
  \/ SubscriptionDeleted
  \/ InvoicePaymentSucceeded
  \/ InvoicePaymentFailed
  \/ ResumeTask
  \/ CancelSubscription

\* trial evaluations next to the invoices of a stored subscription
NextTrial ==
  \/ Tick
  \/ ShouldChargeUser
  \/ UpgradeTrial
  \/ InvoicePaymentSucceeded
  \/ ResumeTask

\* two invoices without a payment intent in controller 13, await by await
NextObj ==
  \/ InvoicePaymentSucceededBegin
  \/ ResumeLookup
  \/ ResumeTask

\* the two requests of a subscriber about the end of the period
NextCancel ==
  \/ Tick
  \/ CancelSubscription
  \/ ReactivateSubscription

Next == NextSub \/ NextPay \/ CancelSubscription \/ ReactivateSubscription

Spec == Init /\ [][Next]_vars
SpecPay == InitPay /\ [][NextPay]_vars
SpecSub == InitSub /\ [][NextSub]_vars
SpecCheckout == InitCheckout /\ [][NextCheckout]_vars
SpecTrial == InitTrial /\ [][NextTrial]_vars
SpecObj == InitObj /\ [][NextObj]_vars
SpecCancel == InitCancel /\ [][NextCancel]_vars

\* ---------------------------------------------------------------------------
\* properties
\* ---------------------------------------------------------------------------
\* the Payment rows stored under a payment intent's id
RowsOf(pays, pi) == {i \in DOMAIN pays : pays[i].stripePaymentIntentId = pi}

\* C1: when invoice.payment_succeeded has been handled for an invoice before
\* (subscription row present, payment intent resolved) and is handled for it
\* again, the handler leaves exactly one Payment row under that payment
\* intent's id, whatever the ledger held before.
C1_DuplicateInvoiceOneRow ==
  [][\A inv \in Invoices :
       (delivered.inv[inv] >= 1 /\ delivered'.inv[inv] = delivered.inv[inv] + 1)
       => Cardinality(RowsOf(payments', PaymentIntentOf(inv))) = 1]_vars

C1_Witness ==
  \E inv \in Invoices :
    /\ delivered.inv[inv] >= 2
    /\ Cardinality(RowsOf(payments, PaymentIntentOf(inv))) = 1

\* C2: once invoice.payment_succeeded and payment_intent.succeeded have both
\* been handled for one transaction, in whichever order, there is exactly one
\* Payment row under the payment intent's id, its amount and status are set,
\* and its cardDetails are set if a handled payment intent carried a card.
C2_BothEventsOneCompleteRow ==
  \A inv \in Invoices :
    LET pi == PaymentIntentOf(inv)
    IN (delivered.inv[inv] >= 1 /\ delivered.pi[pi] >= 1)
       => /\ Cardinality(RowsOf(payments, pi)) = 1
          /\ \A i \in RowsOf(payments, pi) :
               /\ payments[i].amount # 0
               /\ payments[i].status # NULL
               /\ delivered.card[pi] => payments[i].cardDetails # NULL

\* C3: a Payment row whose status is succeeded is never set to processing,
\* and its cardDetails, once set, are never replaced by null, by any handler
\* that leaves the row under its identity (an event of the row's identity
\* finds the row by that id; a step that re-keys a row is an event of another
\* identity).
C3_NoRegressionOfSucceeded ==
  [][\A i \in DOMAIN payments :
       (/\ payments[i].status = "succeeded"
        /\ payments'[i].stripePaymentIntentId = payments[i].stripePaymentIntentId)
       => /\ payments'[i].status # "processing"
          /\ payments[i].cardDetails # NULL => payments'[i].cardDetails # NULL]_vars

\* a succeeded row with its card, after the payment intent was handled twice
C3_Witness ==
  \E pi \in PaymentIntents :
    /\ delivered.pi[pi] >= 2
    /\ \E i \in RowsOf(payments, pi) :
         payments[i].status = "succeeded" /\ payments[i].cardDetails # NULL


\* C4: when its lookups answer, the plan recommendation is decided by three
\* facts about the user alone: an active or trialing subscription gives
\* 'existing'; otherwise any subscription row or the hasEverSubscribed flag,
\* each on its own, gives 'recurring'; otherwise 'initial'.
C4_RecommendationIsFunctionOfHistory ==
  (last.op = "getRecommendedPlan" /\ last.pre.lookupOk)
  => last.result = IF last.pre.active THEN "existing"
                   ELSE IF last.pre.history \/ last.pre.flag THEN "recurring"
                   ELSE "initial"

C4_Witness ==
  /\ last.op = "getRecommendedPlan"
  /\ last.pre.lookupOk
  /\ ~last.pre.active
  /\ last.pre.history
  /\ ~last.pre.flag
  /\ last.result = "recurring"

\* the rows of u, and u's state as the trial evaluation's precondition names
\* it: one subscription, initial, live, with a trial end
RowsOfUser(u) == {i \in DOMAIN subscriptions : subscriptions[i].user = u}

OnlyInitialInTrial(u) ==
  /\ Cardinality(RowsOfUser(u)) = 1
  /\ \A i \in RowsOfUser(u) :
       /\ subscriptions[i].subscriptionType = "initial"
       /\ subscriptions[i].status \in {"active", "trialing"}
       /\ subscriptions[i].trialEnd # NoDate

EvaluatesTrial(u) ==
  budget' < budget /\ last'.op = "shouldChargeUser" /\ last'.id = u

\* C5: for a user whose only subscription is an initial one with trial end T,
\* shouldChargeUser before T answers no charge, reason 'in_trial', and changes
\* no subscription; at or after T it leaves the subscription recurring and
\* answers charge.
C5_TrialBoundary ==
  [][\A u \in Users :
       (EvaluatesTrial(u) /\ OnlyInitialInTrial(u))
       => \A i \in RowsOfUser(u) :
            IF now < subscriptions[i].trialEnd
            THEN /\ last'.result = "no_charge"
                 /\ last'.reason = "in_trial"
                 /\ subscriptions' = subscriptions
            ELSE /\ subscriptions'[i].subscriptionType = "recurring"
                 /\ last'.result = "charge"]_vars

\* C6: the shouldChargeUser call that follows one which upgraded the user's
\* subscription answers no charge with reason 'already_recurring' and attempts
\* no second upgrade.
C6_SecondEvaluationAlreadyRecurring ==
  [][\A u \in Users :
       (/\ EvaluatesTrial(u)
        /\ last.op = "shouldChargeUser"
        /\ last.id = u
        /\ last.pre.upgraded = "success")
       => /\ last'.result = "no_charge"
          /\ last'.reason = "already_recurring"
          /\ last'.pre.upgraded = NULL]_vars

\* C7: a subscription whose type is 'recurring' keeps that type in every step,
\* whatever event, upgrade or trial evaluation the step is.
C7_RecurringNeverReverts ==
  [][\A i \in DOMAIN subscriptions :
       subscriptions[i].subscriptionType = "recurring"
       => subscriptions'[i].subscriptionType = "recurring"]_vars

C7_Witness ==
  /\ last.op = "customer.subscription.updated"
  /\ last.status = 200
  /\ last.pre.price = PlanPrice("initial")
  /\ \E i \in DOMAIN subscriptions :
       /\ subscriptions[i].stripeSubscriptionId = last.id
       /\ subscriptions[i].subscriptionType = "recurring"

\* C8: once a user's hasEverSubscribed flag is true it is true after every
\* step.
C8_FlagNeverCleared ==
  [][\A u \in Users : hasEverSubscribed[u] => hasEverSubscribed'[u]]_vars

C8_Witness ==
  /\ last.op = "checkout.session.completed"
  /\ last.status = 200
  /\ sessions[last.id].isFirstSubscription = "false"
  /\ hasEverSubscribed[sessions[last.id].userId]

EventTypes ==
  {"checkout.session.completed", "customer.subscription.created",
   "customer.subscription.updated", "customer.subscription.deleted",
   "customer.subscription.trial_will_end", "invoice.payment_succeeded",
   "payment_intent.succeeded", "invoice.payment_failed",
   "setup_intent.succeeded"}

\* C9: an event whose signature verified is answered with success, also when
\* its handler met an error.
C9_VerifiedEventAcknowledged ==
  last.op \in EventTypes => last.status \in {0, 200}

\* C10: an event whose signature does not verify is answered 400 and leaves
\* subscriptions, payments and user flags as they were; no handler runs.
C10_UnverifiedEventChangesNothing ==
  [][(budget' < budget /\ last'.op = "unverified")
     => /\ last'.status = 400
        /\ UNCHANGED <<hasEverSubscribed, subscriptions, payments, obj, tasks>>]_vars

C10_Witness ==
  /\ last.op = "unverified"
  /\ last.status = 400
  /\ subscriptions # <<>>
  /\ budget < MaxEvents


\* the step in which a suspended invoice handler ran its upgrade with the
\* given outcome
WebhookUpgrade(outcome) ==
  /\ tasks' # tasks
  /\ last'.op = "invoice.payment_succeeded"
  /\ last'.result = outcome

\* C11: when the provider call of the webhook controller's upgrade fails, every
\* Subscription row keeps its values, no price swap is recorded, and the
\* notification is still answered 200 (nothing is thrown to the dispatcher).
C11_FailedSwapLeavesRowUnchanged ==
  [][WebhookUpgrade("swap_failed")
     => /\ subscriptions' = subscriptions
        /\ swapped' = swapped
        /\ last'.status = 200]_vars

C11_Witness ==
  /\ last.op = "invoice.payment_succeeded"
  /\ last.result = "swap_failed"
  /\ last.status = 200
  /\ \E i \in DOMAIN subscriptions :
       /\ subscriptions[i].stripeSubscriptionId = last.id
       /\ subscriptions[i].subscriptionType = "initial"
       /\ now >= subscriptions[i].trialEnd

\* C12: whenever an upgrade (the trial evaluation's or the webhook
\* controller's) turns a Subscription from initial to recurring, the provider
\* has been asked to swap that remote subscription's price.
C12_UpgradeSwapsPriceFirst ==
  [][\A i \in DOMAIN subscriptions :
       (/\ last'.op \in {"shouldChargeUser", "invoice.payment_succeeded"}
        /\ subscriptions[i].subscriptionType = "initial"
        /\ subscriptions'[i].subscriptionType = "recurring")
       => subscriptions[i].stripeSubscriptionId \in swapped']_vars

\* C13: an upgrade invoked on a Subscription whose stored type is already
\* recurring issues no provider price swap and leaves the row unchanged.
C13_UpgradeOfRecurringIsNoOp ==
  [][\A i \in DOMAIN subscriptions :
       (/\ tasks' # tasks
        /\ last'.op = "invoice.payment_succeeded"
        /\ last'.id = subscriptions[i].stripeSubscriptionId
        /\ subscriptions[i].subscriptionType = "recurring")
       => /\ last'.result \notin {"upgraded", "swap_failed"}
          /\ subscriptions'[i] = subscriptions[i]]_vars


\* C14: in every reachable state each user has at most one Subscription whose
\* status is active or trialing.
C14_OneLiveSubscriptionPerUser ==
  \A u \in Users :
    Cardinality({i \in RowsOfUser(u) : IsActive(subscriptions[i])}) <= 1


\* C15: once a Subscription row exists for a user, every checkout session the
\* system then creates for that user is for the recurring plan.
C15_ReturningUserGetsRecurring ==
  [][\A u \in Users :
       (/\ budget' < budget
        /\ last'.op = "createCheckoutSession"
        /\ last'.id = u
        /\ last'.status = 200
        /\ RowsOfUser(u) # {})
       => last'.result = "recurring"]_vars


\* a notification handled in this step refers to something the system cannot
\* resolve: a subscription id without a row, an unknown price, a missing user
UnresolvableReference ==
  /\ budget' < budget
  /\ \/ /\ last'.op \in {"invoice.payment_succeeded", "invoice.payment_failed"}
        /\ \A inv \in Invoices : SubscriptionById(InvoiceSubscription(inv)) = 0
     \/ /\ last'.op \in {"customer.subscription.updated",
                         "customer.subscription.deleted"}
        /\ SubscriptionById(last'.id) = 0
     \/ /\ last'.op = "customer.subscription.created"
        /\ last'.pre.unknownPrice \/ last'.pre.unknownUser

\* C16: a notification with an unresolvable reference creates and changes no
\* Subscription, Payment or User record, suspends no handler, and is answered
\* 200.
C16_UnresolvableReferenceIsAcknowledged ==
  [][UnresolvableReference
     => /\ UNCHANGED <<subscriptions, payments, hasEverSubscribed, tasks>>
        /\ last'.status = 200]_vars

C16_Witness ==
  /\ last.op = "invoice.payment_succeeded"
  /\ last.status = 200
  /\ sessions # <<>>
  /\ subscriptions = <<>>
  /\ payments = <<>>


\* C17: after invoice_payment_succeeded was handled for a known subscription
\* and an invoice without a resolvable payment intent, exactly one Payment row
\* exists under the synthetic id derived from that invoice.
C17_InvoiceWithoutIntentIsRecorded ==
  (/\ last.op = "invoice.payment_succeeded"
   /\ last.status = 200
   /\ last.id \in Invoices)
  => Cardinality(RowsOf(payments, FallbackId(last.id))) = 1


\* C18: a Subscription row that subscription_created stored for a checkout of a
\* returning user (the checkout's metadata says it is not the user's first
\* subscription) has no trial start and no trial end.
C18_ReturningUserHasNoTrial ==
  \A i \in DOMAIN subscriptions :
    sessions[subscriptions[i].stripeSubscriptionId].isFirstSubscription = "false"
    => /\ subscriptions[i].trialStart = NoDate
       /\ subscriptions[i].trialEnd = NoDate


\* C19: right after subscription_deleted was handled for a subscription that
\* has a row, the row is canceled, carries a cancellation time, and its user's
\* hasEverSubscribed is true.
C19_DeletedMarksUser ==
  (/\ last.op = "customer.subscription.deleted"
   /\ last.status = 200
   /\ SubscriptionById(last.id) # 0)
  => LET row == subscriptions[SubscriptionById(last.id)]
     IN /\ row.status = "canceled"
        /\ row.canceledAt # NoDate
        /\ hasEverSubscribed[row.user]

\* C20: handling checkout_completed leaves every Subscription and Payment row
\* as it was; of the users' flags it changes at most the flag of the session's
\* user, to true, and exactly when the session's metadata says first
\* subscription.
C20_CheckoutCompletedFrame ==
  [][(budget' < budget /\ last'.op = "checkout.session.completed")
     => /\ subscriptions' = subscriptions
        /\ payments' = payments
        /\ \A u \in Users :
             hasEverSubscribed'[u] =
               (\/ hasEverSubscribed[u]
                \/ /\ u = sessions[last'.id].userId
                   /\ sessions[last'.id].isFirstSubscription = "true")]_vars

C20_Witness ==
  /\ last.op = "checkout.session.completed"
  /\ last.status = 200
  /\ sessions[last.id].isFirstSubscription = "true"
  /\ hasEverSubscribed[sessions[last.id].userId]
  /\ subscriptions = <<>>


\* C21: no step removes a Subscription or Payment document: both collections
\* only grow, every stored Subscription keeps its external id and its user,
\* every stored Payment keeps its user and its subscription, and a handled
\* subscription_deleted leaves the existing row in place with status canceled.
C21_RowsAreNeverRemoved ==
  [][/\ Len(subscriptions') >= Len(subscriptions)
     /\ Len(payments') >= Len(payments)
     /\ \A i \in DOMAIN subscriptions :
          /\ subscriptions'[i].stripeSubscriptionId = subscriptions[i].stripeSubscriptionId
          /\ subscriptions'[i].user = subscriptions[i].user
     /\ \A i \in DOMAIN payments :
          /\ payments'[i].user = payments[i].user
          /\ payments'[i].subscription = payments[i].subscription
     /\ (/\ budget' < budget
         /\ last'.op = "customer.subscription.deleted"
         /\ SubscriptionById(last'.id) # 0)
        => subscriptions'[SubscriptionById(last'.id)].status = "canceled"]_vars

\* a subscription with a Payment, canceled by subscription_deleted
C21_Witness ==
  /\ last.op = "customer.subscription.deleted"
  /\ last.status = 200
  /\ \E i \in DOMAIN subscriptions :
       /\ subscriptions[i].stripeSubscriptionId = last.id
       /\ subscriptions[i].status = "canceled"
       /\ \E j \in DOMAIN payments : payments[j].subscription = i


\* C22: a subscription_created delivered for an external subscription id
\* that already has a row (its user and price resolve as before) changes no
\* Subscription row, leaves exactly one row under that id, and is answered
\* 200.
C22_DuplicateCreatedIsHandled ==
  [][\A s \in StripeSubs :
       (/\ budget' < budget
        /\ last'.op = "customer.subscription.created"
        /\ last'.id = s
        /\ ~last'.pre.unknownUser
        /\ ~last'.pre.unknownPrice
        /\ SubscriptionById(s) # 0)
       => /\ subscriptions' = subscriptions
          /\ Cardinality({i \in DOMAIN subscriptions' :
                            subscriptions'[i].stripeSubscriptionId = s}) = 1
          /\ last'.status = 200]_vars


\* C23: when a suspended invoice_payment_succeeded handler runs its create
\* after another delivery has stored the row (both had passed the lookup), the
\* duplicate-key error is swallowed: the ledger is left as it was, with
\* exactly one row under the payment intent's id, and the delivery is
\* answered 200.
C23_LosingCreateIsSuccess ==
  [][\A k \in DOMAIN tasks :
       (/\ tasks' = RemoveAt(tasks, k)
        /\ tasks[k].kind = "invoice"
        /\ last'.op = "invoice.payment_succeeded"
        /\ last'.reason = "duplicate_key")
       => /\ payments' = payments
          /\ Cardinality(RowsOf(payments', tasks[k].row.stripePaymentIntentId)) = 1
          /\ last'.status = 200]_vars

\* both deliveries of one invoice were handled, the second create lost
C23_Witness ==
  /\ last.op = "invoice.payment_succeeded"
  /\ last.reason = "duplicate_key"
  /\ last.status = 200
  /\ tasks = <<>>
  /\ \E inv \in Invoices :
       /\ delivered.inv[inv] = 2
       /\ Cardinality(RowsOf(payments, PaymentIntentOf(inv))) = 1


\* C24: when invoice_payment_succeeded for a known subscription finds a
\* Payment under the resolved payment intent's id, it stores the invoice id
\* on that row if the row has none and changes nothing else: every other
\* field of the row, and every other row, stays as it was.
C24_ExistingPaymentOnlyBackfilled ==
  [][\A inv \in Invoices :
       (budget' < budget /\ delivered'.inv[inv] = delivered.inv[inv] + 1)
       => LET i == PaymentByIntent(payments, PaymentIntentOf(inv))
          IN /\ i # 0
             /\ payments' = [payments EXCEPT
                               ![i].stripeInvoiceId = IF @ = NULL THEN inv ELSE @]]_vars

\* a row the payment intent's handler created without an invoice id, which the
\* invoice's handler then completed
C24_Witness ==
  /\ ctl = 14
  /\ last.op = "invoice.payment_succeeded"
  /\ last.status = 200
  /\ tasks = <<>>
  /\ \E inv \in Invoices :
       /\ delivered.inv[inv] = 1
       /\ delivered.pi[PaymentIntentOf(inv)] = 0
       /\ \E i \in RowsOf(payments, PaymentIntentOf(inv)) :
            /\ payments[i].stripeInvoiceId = inv
            /\ payments[i].paymentMethod # NULL
            /\ payments[i].receiptUrl = NULL


\* C25: every invoice_payment_succeeded that is handled to its end for a
\* known subscription (the Payment newly created, found existing, or recorded
\* under the invoice-derived id) invokes the upgrade when the subscription is
\* a first, initial one whose trial end has passed.
C25_InvoiceEndsWithUpgradeCheck ==
  [][\A inv \in Invoices :
       (/\ last'.op = "invoice.payment_succeeded"
        /\ last'.status = 200
        /\ \/ delivered'.inv[inv] = delivered.inv[inv] + 1
           \/ /\ last' # last
              /\ last'.id = inv
              /\ RowsOf(payments', FallbackId(inv)) # {}
        /\ SubscriptionById(InvoiceSubscription(inv)) # 0
        /\ shouldUpgradeToRecurring(
             subscriptions[SubscriptionById(InvoiceSubscription(inv))]))
       => last'.result \in {"upgraded", "swap_failed", "no_plan"}]_vars


\* C26: handling invoice_payment_failed leaves every Payment row whose status
\* is succeeded exactly as it was; only a row that is not succeeded can be
\* moved to canceled.
C26_FailedNeverCancelsSucceeded ==
  [][(budget' < budget /\ last'.op = "invoice.payment_failed")
     => \A i \in DOMAIN payments :
          payments[i].status = "succeeded" => payments'[i] = payments[i]]_vars


\* C27: in every reachable state a Subscription that has a trial start or a
\* trial end is of type initial.
C27_TrialDatesOnlyOnInitial ==
  \A i \in DOMAIN subscriptions :
    (subscriptions[i].trialStart # NoDate \/ subscriptions[i].trialEnd # NoDate)
    => subscriptions[i].subscriptionType = "initial"

\* C28: subscription_updated handled for a stored subscription of type initial
\* whose event carries the recurring plan's price leaves the subscription
\* recurring, whatever status the event reports.
C28_PriceMatchFlipsType ==
  [][\A i \in DOMAIN subscriptions :
       (/\ budget' < budget
        /\ last'.op = "customer.subscription.updated"
        /\ last'.status = 200
        /\ last'.id = subscriptions[i].stripeSubscriptionId
        /\ last'.pre.price = PlanPrice("recurring")
        /\ "recurring" \in plans
        /\ subscriptions[i].subscriptionType = "initial")
       => subscriptions'[i].subscriptionType = "recurring"]_vars


\* C29: a handled subscription_updated never loses a stored value to a field
\* the payload does not carry: without cancel_at_period_end the stored
\* cancelAtPeriodEnd stays, without canceled_at the stored canceledAt stays,
\* and a stored canceledAt is never cleared.
C29_PartialUpdateKeepsStoredValues ==
  [][\A i \in DOMAIN subscriptions :
       (/\ budget' < budget
        /\ last'.op = "customer.subscription.updated"
        /\ last'.status = 200
        /\ last'.id = subscriptions[i].stripeSubscriptionId)
       => /\ last'.pre.cancel = NULL
               => subscriptions'[i].cancelAtPeriodEnd = subscriptions[i].cancelAtPeriodEnd
          /\ subscriptions'[i].canceledAt \in {subscriptions[i].canceledAt, now}
          /\ subscriptions[i].canceledAt # NoDate
               => subscriptions'[i].canceledAt # NoDate
          /\ subscriptions'[i].status # NULL]_vars


\* C30: the paymentType of a Payment row that invoice_payment_succeeded
\* stores is: initial_payment for billing reason subscription_create on a
\* subscription loaded as initial, recurring_payment for subscription_create
\* on a recurring one, upgrade_payment for subscription_update, and
\* recurring_payment for every other billing reason.
C30_PaymentTypeFromReasonAndType ==
  [][\A k \in DOMAIN tasks :
       (/\ tasks' = RemoveAt(tasks, k)
        /\ tasks[k].kind \in {"invoice", "fallback"}
        /\ Len(payments') = Len(payments) + 1)
       => payments'[Len(payments')].paymentType =
            CASE tasks[k].pre.reason = "subscription_create"
                   /\ tasks[k].snap.subscriptionType = "initial" -> "initial_payment"
              [] tasks[k].pre.reason = "subscription_create"
                   /\ tasks[k].snap.subscriptionType = "recurring" -> "recurring_payment"
              [] tasks[k].pre.reason = "subscription_update" -> "upgrade_payment"
              [] OTHER -> "recurring_payment"]_vars

\* rows of an upgrade invoice and of a periodic one were stored for an
\* initial subscription
C30_Witness ==
  /\ last.op = "invoice.payment_succeeded"
  /\ last.status = 200
  /\ \E i, j \in DOMAIN payments :
       /\ payments[i].stripeInvoiceId = "in2"
       /\ payments[i].paymentType = "upgrade_payment"
       /\ payments[j].stripeInvoiceId = "in1"
       /\ payments[j].paymentType = "initial_payment"


\* C31: when the subscription lookup of getRecommendedPlan fails, the call
\* returns plan class initial with reason error_fallback, whatever the user's
\* flag and history are, and changes no stored state.
C31_LookupFailureFallsBackToInitial ==
  [][(/\ budget' < budget
      /\ last'.op = "getRecommendedPlan"
      /\ ~last'.pre.lookupOk)
     => /\ last'.result = "initial"
        /\ last'.reason = "error_fallback"
        /\ UNCHANGED <<hasEverSubscribed, subscriptions, payments, tasks>>]_vars

\* the fallback given to a user whose flag is set and who has a live
\* subscription
C31_Witness ==
  /\ last.op = "getRecommendedPlan"
  /\ ~last.pre.lookupOk
  /\ last.pre.flag
  /\ last.pre.active
  /\ last.result = "initial"
  /\ last.reason = "error_fallback"

\* C32: a trial evaluation whose upgrade attempt fails (recurring plan missing)
\* degrades to 'not upgraded': it does not answer charge (so
\* requirePaymentIfTrialEnded does not answer 402) and the subscription it
\* evaluated stays initial with its trial end, so that the next evaluation
\* attempts the upgrade again.
C32_FailedUpgradeDegrades ==
  [][\A u \in Users :
       (EvaluatesTrial(u) /\ last'.pre.upgraded = "failed")
       => /\ last'.result = "no_charge"
          /\ subscriptions' = subscriptions]_vars

\* C33: POST /api/trial/upgrade by a user whose only subscription is an initial
\* one whose trial has ended, with the recurring plan available, answers 200
\* and leaves the subscription recurring; it does not answer 400 for the
\* request that performed the upgrade.
C33_UpgradeRequestAnswersSuccess ==
  [][\A u \in Users :
       (/\ budget' < budget
        /\ last'.op = "upgradeTrial"
        /\ last'.id = u
        /\ OnlyInitialInTrial(u)
        /\ \A i \in RowsOfUser(u) : now >= subscriptions[i].trialEnd
        /\ "recurring" \in plans)
       => /\ last'.status = 200
          /\ \A i \in RowsOfUser(u) :
               /\ subscriptions'[i].subscriptionType = "recurring"
               /\ subscriptions'[i].amount = RecurringAmount]_vars

\* C34: a step of one of the system's own upgrade triggers (a trial evaluation,
\* or the check that ends handleInvoicePaymentSucceeded) turns a Subscription
\* from initial to recurring only if that Subscription has a trial end and the
\* current time is at or after it.
C34_UpgradeOnlyAfterTrialEnd ==
  [][\A i \in DOMAIN subscriptions :
       (/\ last'.op \in {"shouldChargeUser", "upgradeTrial", "invoice.payment_succeeded"}
        /\ budget' < budget \/ tasks' # tasks
        /\ subscriptions[i].subscriptionType = "initial"
        /\ subscriptions'[i].subscriptionType = "recurring")
       => /\ subscriptions[i].trialEnd # NoDate
          /\ now >= subscriptions[i].trialEnd]_vars

\* the invoice handler's check has upgraded a subscription whose trial end has
\* passed
C34_Witness ==
  /\ last.op = "invoice.payment_succeeded"
  /\ last.result = "upgraded"
  /\ \E i \in DOMAIN subscriptions :
       /\ subscriptions[i].subscriptionType = "recurring"
       /\ subscriptions[i].trialEnd # NoDate
       /\ now >= subscriptions[i].trialEnd

\* C35: of two concurrent evaluations on the same initial subscription after
\* its trial end, at most one performs the upgrade: when a trial evaluation
\* has reported the upgrade, an invoice handler that was running beside it
\* does not swap the price and commit the upgrade a second time.
C35_AtMostOneUpgrade ==
  [][\A i \in DOMAIN subscriptions :
       (/\ last.op = "shouldChargeUser"
        /\ last.pre.upgraded = "success"
        /\ subscriptions[i].user = last.id
        /\ tasks' # tasks
        /\ last'.op = "invoice.payment_succeeded"
        /\ last'.id = subscriptions[i].stripeSubscriptionId)
       => last'.result # "upgraded"]_vars

\* C36: in the controller that keeps obj, a Payment stored under a synthetic
\* id carries the id of its own invoice ('invoice_' + its stripeInvoiceId),
\* however the awaits of two concurrent invoice handlers interleave.
C36_FallbackIdOfOwnInvoice ==
  \A p \in DOMAIN payments :
    payments[p].stripePaymentIntentId \in {FallbackId(inv) : inv \in Invoices}
    => payments[p].stripePaymentIntentId = FallbackId(payments[p].stripeInvoiceId)

\* C37: a payment_intent.succeeded step changes only Payment rows of one
\* transaction, its own: every row it changes was stored under the intent's
\* id or under the intent's invoice, and a row it re-keys is re-keyed to that
\* intent.
C37_IntentTouchesOwnRowOnly ==
  [][(/\ last'.op = "payment_intent.succeeded"
      /\ budget' < budget \/ tasks' # tasks)
     => \E pi \in PaymentIntents :
          \A p \in DOMAIN payments :
            payments'[p] # payments[p]
            => /\ \/ payments[p].stripePaymentIntentId = pi
                  \/ payments[p].stripeInvoiceId = InvoiceOf(pi)
               /\ payments'[p].stripePaymentIntentId = pi]_vars

\* C38: a subscription_updated event delivered after subscription_deleted has
\* set the same Subscription's status to canceled does not move the status
\* away from canceled.
C38_UpdatedAfterDeletedStaysCanceled ==
  [][\A i \in DOMAIN subscriptions :
       (/\ last.op = "customer.subscription.deleted"
        /\ last.status = 200
        /\ last.id = subscriptions[i].stripeSubscriptionId
        /\ subscriptions[i].status = "canceled"
        /\ budget' < budget
        /\ last'.op = "customer.subscription.updated"
        /\ last'.id = last.id)
       => subscriptions'[i].status = "canceled"]_vars

CancellationFieldsSet(flag, at) ==
  \E i \in DOMAIN subscriptions :
    /\ IsActive(subscriptions[i])
    /\ subscriptions' = [subscriptions EXCEPT
                           ![i] = [@ EXCEPT !.cancelAtPeriodEnd = flag,
                                            !.canceledAt = at]]

\* C40: cancelSubscription changes only cancelAtPeriodEnd and canceledAt of
\* the live subscription, and the reactivateSubscription that follows it
\* restores cancelAtPeriodEnd = false and canceledAt = null and leaves every
\* other field as it was before the cancel; either request changes the row
\* only when its provider call succeeded, and answers 500 with the row
\* unchanged when the call failed.
C40_CancelReactivateRoundTrip ==
  [][(/\ budget' < budget
      /\ last'.op \in {"cancelSubscription", "reactivateSubscription"})
     => /\ last'.status # 200 => subscriptions' = subscriptions
        /\ (last'.op = "cancelSubscription" /\ last'.status = 200)
           => CancellationFieldsSet(TRUE, now)
        /\ (last'.op = "reactivateSubscription" /\ last'.status = 200)
           => CancellationFieldsSet(FALSE, NoDate)
        /\ (/\ last.op = "cancelSubscription"
            /\ last.status = 200
            /\ last'.op = "reactivateSubscription")
           => last'.status \in {200, 500}]_vars

\* a subscription canceled and then reactivated: the flags are back and the
\* row is still live
C40_Witness ==
  /\ last.op = "reactivateSubscription"
  /\ last.status = 200
  /\ \E i \in DOMAIN subscriptions :
       /\ subscriptions[i].user = last.id
       /\ IsActive(subscriptions[i])
       /\ ~subscriptions[i].cancelAtPeriodEnd
       /\ subscriptions[i].canceledAt = NoDate

====
